---- MODULE Spec2Model ----
(***************************************************************************)
(* Model of ploigos_step_runner/utils/git.py: the reference update-and-push *)
(* protocol (git_update_ref_and_push) and the tag-and-push protocol        *)
(* (git_tag_and_push).  Every external git command the functions issue is  *)
(* appended to `trace` with its argument list and exit status; the local   *)
(* clone and the remote are maps from reference names to object names.     *)
(* Texts (stderr, exception messages) are sequences of words, so that the  *)
(* substring test of the fetch probe is a search and not an equality.      *)
(***************************************************************************)
EXTENDS Integers, Sequences, FiniteSets, TLC

VARIABLES op, input, pc, result, message, trace,
          localRefs, remoteRefs, remoteInit, localInit,
          localHead, remoteHead,
          repo, retval, other, active

vars == <<op, input, pc, result, message, trace,
          localRefs, remoteRefs, remoteInit, localInit,
          localHead, remoteHead,
          repo, retval, other, active>>

(* ------------------------------ bounds --------------------------------- *)

\* number of distinct objects (commits) a reference can point to
NumObjects == 2

(* ------------------------------ values --------------------------------- *)

\* Python's None, for the optional url parameter
None == "<None>"

\* a reference that does not exist in a repository
Absent == "<absent>"

HashOf(i) == IF i = 1 THEN "abc123" ELSE "obj" \o ToString(i)

Hashes == { HashOf(i) : i \in 1..NumObjects }

RefRoots == {"refs/", "refs/ploigos/"}

RefLeaves == {"myref", "v1"}

TagNames == {"v1", "v2"}

Urls == {None, "https://git.example/r.git"}

TagRef(t) == "refs/tags/" \o t

TagRefs == { TagRef(t) : t \in TagNames }

RefNames == { r \o l : r \in RefRoots, l \in RefLeaves } \cup TagRefs

ExitCodes == {0, 1, 128}

(* --------------------------- text helpers ------------------------------ *)

\* a Python str as the sequence of its characters; NoStr is None where a str
\* is expected
NoStr == <<None>>

NL == "\n"

RECURSIVE Join(_)
\* the string a sequence of characters spells
Join(cs) == IF cs = <<>> THEN "" ELSE Head(cs) \o Join(Tail(cs))

StartsWith(s, p) == Len(s) >= Len(p) /\ SubSeq(s, 1, Len(p)) = p

\* Python truthiness of an optional str
StrTruthy(s) == s # NoStr /\ s # <<>>

\* str.find: index (0-based) of the first occurrence of needle in hay, -1 if none
Find(hay, needle) ==
    LET starts == { i \in 1..(Len(hay) - Len(needle) + 1) :
                      \A j \in 1..Len(needle) : hay[i + j - 1] = needle[j] }
    IN  IF starts = {} THEN -1
        ELSE (CHOOSE i \in starts : \A k \in starts : i <= k) - 1

HasArg(args, a) == \E i \in DOMAIN args : args[i] = a

\* repr()/str() of an sh.ErrorReturnCode: the command that ran and its stderr
ErrorRepr(args, stderr) == <<"RAN:", "git">> \o args \o <<"STDERR:">> \o stderr

CouldntFindRemoteRef == <<"Couldn't", "find", "remote", "ref">>

(* ------------------- the git executable (environment) ------------------ *)

\* what one run of git leaves behind: exit status, stderr, and both repositories
Outcome(exit, stderr, l, r, h) ==
    [exit |-> exit, stderr |-> stderr, local |-> l, remote |-> r, rhead |-> h]

PushFlags == {"--tag", "--tags", "--force", "-f"}

\* the readings of a refspec string: [+]<src>:<dst>
RefspecParse(refspec) ==
    { p \in [src : RefNames, dst : RefNames, force : BOOLEAN] :
        (IF p.force THEN "+" ELSE "") \o p.src \o ":" \o p.dst = refspec }

NetworkFailure(remote) ==
    Outcome(128, <<"fatal:", "unable", "to", "access", remote>>,
            localRefs, remoteRefs, remoteHead)

\* git check-ref-format <ref>: 0 well-formed, 1 malformed, 128 could not run
GitCheckRefFormat(args) ==
    { Outcome(0, <<>>, localRefs, remoteRefs, remoteHead),
      Outcome(1, <<>>, localRefs, remoteRefs, remoteHead),
      Outcome(128, <<"fatal:", "not", "a", "git", "command">>,
              localRefs, remoteRefs, remoteHead) }

\* a fetch that removes what it fetched from the remote
GitFetch_MovesRef(args) ==
    LET remote == args[Len(args) - 1]
        specs  == RefspecParse(args[Len(args)])
        one(p) ==
            IF remoteRefs[p.src] = Absent
            THEN { Outcome(128, <<"fatal:">> \o CouldntFindRemoteRef \o <<p.src>>,
                           localRefs, remoteRefs, remoteHead) }
            ELSE { Outcome(0, <<>>,
                           [localRefs EXCEPT ![p.dst] = remoteRefs[p.src]],
                           [remoteRefs EXCEPT ![p.src] = Absent], remoteHead) }
    IN  { NetworkFailure(remote) } \cup UNION { one(p) : p \in specs }

\* git fetch --refmap=.. <remote> <src>:<dst>: never changes the remote
GitFetch(args) ==
    LET remote == args[Len(args) - 1]
        specs  == RefspecParse(args[Len(args)])
        one(p) ==
            IF remoteRefs[p.src] = Absent
            THEN { Outcome(128, <<"fatal:">> \o CouldntFindRemoteRef \o <<p.src>>,
                           localRefs, remoteRefs, remoteHead) }
            ELSE { Outcome(0, <<>>,
                           [localRefs EXCEPT ![p.dst] = remoteRefs[p.src]],
                           remoteRefs, remoteHead) }
                 \cup
                 ( IF p.force \/ localRefs[p.dst] \in {Absent, remoteRefs[p.src]}
                   THEN {}
                   ELSE { Outcome(1, <<"!", "[rejected]", p.src, "->", p.dst,
                                       "(non-fast-forward)">>,
                                  localRefs, remoteRefs, remoteHead) } )
    IN  { NetworkFailure(remote) } \cup UNION { one(p) : p \in specs }

\* git update-ref <ref> <newvalue> [<oldvalue>]: an empty <oldvalue> demands
\* that the reference does not exist yet
GitUpdateRef(args) ==
    LET ref   == args[2]
        value == args[3]
        guarded == Len(args) >= 4
        oldOk == IF ~guarded THEN TRUE
                 ELSE IF args[4] = "" THEN localRefs[ref] = Absent
                 ELSE localRefs[ref] = args[4]
    IN  IF ~oldOk
        THEN { Outcome(128, <<"fatal:", "cannot", "lock", "ref", ref,
                              "reference", "already", "exists">>,
                       localRefs, remoteRefs, remoteHead) }
        ELSE { Outcome(0, <<>>, [localRefs EXCEPT ![ref] = value],
                       remoteRefs, remoteHead),
               Outcome(128, <<"fatal:", value, "not", "a", "valid", "SHA1">>,
                       localRefs, remoteRefs, remoteHead) }

\* git tag <name> [-f]: points the tag at HEAD; refuses an existing tag without -f
GitTag(args) ==
    LET forced == HasArg(args, "-f") \/ HasArg(args, "--force")
        names  == { t \in TagNames : HasArg(args, t) }
        one(t) ==
            IF localRefs[TagRef(t)] # Absent /\ ~forced
            THEN { Outcome(128, <<"fatal:", "tag", t, "already", "exists">>,
                           localRefs, remoteRefs, remoteHead) }
            ELSE { Outcome(0, <<>>, [localRefs EXCEPT ![TagRef(t)] = localHead],
                           remoteRefs, remoteHead),
                   Outcome(128, <<"fatal:", "Failed", "to", "resolve", "HEAD">>,
                           localRefs, remoteRefs, remoteHead) }
    IN  UNION { one(t) : t \in names }

\* git push [<repository>] [<refspec>] [--tags] [--force]
GitPush(args) ==
    LET forced == HasArg(args, "--force") \/ HasArg(args, "-f")
        tags   == HasArg(args, "--tag") \/ HasArg(args, "--tags")
        pos    == SelectSeq(Tail(args), LAMBDA a : a \notin PushFlags)
        remote == IF Len(pos) >= 1 THEN pos[1] ELSE "origin"
        specs  == IF Len(pos) >= 2 THEN RefspecParse(pos[2]) ELSE {}
        \* tags that exist remotely with another value are rejected unless forced
        rejectedTags == { t \in TagRefs : /\ localRefs[t] # Absent
                                         /\ remoteRefs[t] \notin {Absent, localRefs[t]}
                                         /\ ~forced }
        pushedTags == [ r \in RefNames |->
                          IF r \in TagRefs /\ localRefs[r] # Absent /\ r \notin rejectedTags
                          THEN localRefs[r] ELSE remoteRefs[r] ]
        oneSpec(p) ==
            IF localRefs[p.src] = Absent
            THEN { Outcome(1, <<"error:", "src", "refspec", p.src, "does", "not",
                                "match", "any">>, localRefs, remoteRefs, remoteHead) }
            ELSE { Outcome(0, <<>>, localRefs,
                           [remoteRefs EXCEPT ![p.dst] = localRefs[p.src]], remoteHead) }
                 \cup
                 ( IF forced \/ p.force \/ remoteRefs[p.dst] \in {Absent, localRefs[p.src]}
                   THEN {}
                   ELSE { Outcome(1, <<"!", "[rejected]", p.src, "->", p.dst,
                                       "(non-fast-forward)">>,
                                  localRefs, remoteRefs, remoteHead) } )
        branch ==
            { Outcome(0, <<>>, localRefs, remoteRefs, localHead) }
            \cup
            ( IF forced \/ remoteHead \in {Absent, localHead}
              THEN {}
              ELSE { Outcome(1, <<"!", "[rejected]", "HEAD", "(non-fast-forward)">>,
                             localRefs, remoteRefs, remoteHead) } )
    IN  { NetworkFailure(remote) }
        \cup
        ( IF tags
          THEN { Outcome(IF rejectedTags = {} THEN 0 ELSE 1,
                         IF rejectedTags = {} THEN <<>>
                         ELSE <<"!", "[rejected]", "(already", "exists)">>,
                         localRefs, pushedTags, remoteHead) }
          ELSE IF specs # {} THEN UNION { oneSpec(p) : p \in specs }
          ELSE branch )

(* ------------------------ git_update_ref_and_push ---------------------- *)

\* Python truthiness of the optional url parameter
Truthy(u) == u # None /\ u # ""

git_ref_full == input.git_ref_root \o input.git_ref

\* remote = url if url else 'origin'
Remote == IF Truthy(input.url) THEN input.url ELSE "origin"

CheckRefFormatArgs == <<"check-ref-format", git_ref_full>>

FetchArgs == <<"fetch", "--refmap=''", Remote, git_ref_full \o ":" \o git_ref_full>>

\* mutant: the non-force path writes without an old value, like the force path
UpdateRefArgs_NoOldValue == <<"update-ref", git_ref_full, input.git_ref_value>>

UpdateRefArgs ==
    IF input.force_push_ref
    THEN <<"update-ref", git_ref_full, input.git_ref_value>>
    ELSE <<"update-ref", git_ref_full, input.git_ref_value, "">>

\* mutant: the force flag of the call is handed on to the push
PushRefArgs_Forced ==
    IF input.force_push_ref
    THEN <<"push", "--force", Remote, git_ref_full \o ":" \o git_ref_full>>
    ELSE <<"push", Remote, git_ref_full \o ":" \o git_ref_full>>

PushRefArgs == <<"push", Remote, git_ref_full \o ":" \o git_ref_full>>

ImproperFormat == <<"Reference", "(" \o git_ref_full \o ")", "has", "improper", "format.">>

AlreadyExists ==
    <<"Reference", "(" \o git_ref_full \o ")", "already", "exists", "in", "remote.">>

\* the StepRunnerException of the outer handler
RefError(inner) ==
    <<"Error", "creating", "git", "reference", "(" \o git_ref_full \o ")",
      "for", "(" \o input.git_ref_value \o "):">> \o inner

Continue(next) == [pc |-> next, result |-> "running", message |-> <<>>]

Raise(msg) == [pc |-> "done", result |-> "raised", message |-> msg]

Return == [pc |-> "done", result |-> "returned", message |-> <<>>]

\* the handler of the fetch probe: which failures of the probe are re-raised
FetchProbeRaises(args, o) == Find(ErrorRepr(args, o.stderr), CouldntFindRemoteRef) # -1

\* mutant: the probe is made on the force path too
AfterCheckRefFormat_AlwaysProbe(args, o) ==
    IF o.exit = 0 THEN Continue("fetch")
    ELSE IF o.exit = 1 THEN Raise(RefError(ImproperFormat))
    ELSE Raise(RefError(ErrorRepr(args, o.stderr)))

\* mutant: only exit status 1 of check-ref-format stops the call
AfterCheckRefFormat_OnlyExit1(args, o) ==
    IF o.exit = 1 THEN Raise(RefError(ImproperFormat))
    ELSE Continue(IF input.force_push_ref THEN "update_ref" ELSE "fetch")

AfterCheckRefFormat(args, o) ==
    IF o.exit = 0
    THEN Continue(IF input.force_push_ref THEN "update_ref" ELSE "fetch")
    ELSE IF o.exit = 1 THEN Raise(RefError(ImproperFormat))
    ELSE Raise(RefError(ErrorRepr(args, o.stderr)))

AfterFetch(args, o) ==
    IF o.exit = 0 THEN Continue("update_ref")
    ELSE IF FetchProbeRaises(args, o) THEN Raise(RefError(AlreadyExists))
    ELSE Continue("update_ref")

AfterUpdateRef(args, o) ==
    IF o.exit = 0 THEN Continue("push_ref")
    ELSE Raise(RefError(ErrorRepr(args, o.stderr)))

AfterPushRef(args, o) ==
    IF o.exit = 0 THEN Return
    ELSE Raise(RefError(ErrorRepr(args, o.stderr)))

\* one external command: record it, take its effect, run the handler
Step(args, o, after) ==
    /\ trace' = Append(trace, [args |-> args, exit |-> o.exit, stderr |-> o.stderr])
    /\ localRefs' = o.local
    /\ remoteRefs' = o.remote
    /\ remoteHead' = o.rhead
    /\ pc' = after.pc
    /\ result' = after.result
    /\ message' = after.message
    /\ UNCHANGED <<op, input, remoteInit, localInit, localHead>>
    /\ UNCHANGED <<repo, retval, other, active>>

CheckRefFormat ==
    /\ op = "git_update_ref_and_push"
    /\ pc = "check_ref_format"
    /\ \E o \in GitCheckRefFormat(CheckRefFormatArgs) :
          Step(CheckRefFormatArgs, o, AfterCheckRefFormat(CheckRefFormatArgs, o))

Fetch ==
    /\ op = "git_update_ref_and_push"
    /\ pc = "fetch"
    /\ \E o \in GitFetch(FetchArgs) : Step(FetchArgs, o, AfterFetch(FetchArgs, o))

UpdateRef ==
    /\ op = "git_update_ref_and_push"
    /\ pc = "update_ref"
    /\ \E o \in GitUpdateRef(UpdateRefArgs) :
          Step(UpdateRefArgs, o, AfterUpdateRef(UpdateRefArgs, o))

PushRef ==
    /\ op = "git_update_ref_and_push"
    /\ pc = "push_ref"
    /\ \E o \in GitPush(PushRefArgs) : Step(PushRefArgs, o, AfterPushRef(PushRefArgs, o))

(* ---------------------------- git_tag_and_push ------------------------- *)

\* git_push = sh.git.push.bake(url) if url else sh.git.push
GitPushBaked == IF Truthy(input.url) THEN <<"push", input.url>> ELSE <<"push">>

PushCommitsArgs == GitPushBaked

TagArgs == <<"tag", input.tag, "-f">>

\* mutant: the tag push is always forced
git_push_additional_arguments_AlwaysForce == <<"--force">>

git_push_additional_arguments == IF input.force_push_tags THEN <<"--force">> ELSE <<>>

PushTagsArgs == GitPushBaked \o <<"--tag">> \o git_push_additional_arguments

UrlText == IF input.url = None THEN "None" ELSE input.url

\* mutant: a failed push of commits is not raised
AfterPushCommits_Swallow(args, o) == Continue("tag")

AfterPushCommits(args, o) ==
    IF o.exit = 0 THEN Continue("tag")
    ELSE Raise(<<"Error", "pushing", "commits", "to", "repository",
                 "(" \o UrlText \o "):">> \o ErrorRepr(args, o.stderr))

\* a tag step whose failure is swallowed
AfterTag_Swallow(args, o) == Continue("push_tags")

AfterTag(args, o) ==
    IF o.exit = 0 THEN Continue("push_tags")
    ELSE Raise(<<"Error", "tagging", "repository", "with", "tag",
                 "(" \o input.tag \o "):">> \o ErrorRepr(args, o.stderr))

AfterPushTags(args, o) ==
    IF o.exit = 0 THEN Return
    ELSE Raise(<<"Error", "pushing", "tags", "to", "repository",
                 "(" \o UrlText \o "):">> \o ErrorRepr(args, o.stderr))

PushCommits ==
    /\ op = "git_tag_and_push"
    /\ pc = "push_commits"
    /\ \E o \in GitPush(PushCommitsArgs) :
          Step(PushCommitsArgs, o, AfterPushCommits(PushCommitsArgs, o))

Tag ==
    /\ op = "git_tag_and_push"
    /\ pc = "tag"
    /\ \E o \in GitTag(TagArgs) : Step(TagArgs, o, AfterTag(TagArgs, o))

PushTags ==
    /\ op = "git_tag_and_push"
    /\ pc = "push_tags"
    /\ \E o \in GitPush(PushTagsArgs) : Step(PushTagsArgs, o, AfterPushTags(PushTagsArgs, o))

(* --------------------------- get_git_auth_url -------------------------- *)

HTTPS == <<"h", "t", "t", "p", "s", ":", "/", "/">>

HTTP == <<"h", "t", "t", "p", ":", "/", "/">>

NoMatch == [matched |-> FALSE]

\* (?P<address>.*$): `.` matches no line break and `$` matches at the end of
\* the string or before a line break that ends it
AddressMatch(rest) ==
    IF \E i \in 1..(Len(rest) - 1) : rest[i] = NL THEN NoMatch
    ELSE [matched |-> TRUE,
          address |-> IF Len(rest) >= 1 /\ rest[Len(rest)] = NL
                      THEN SubSeq(rest, 1, Len(rest) - 1) ELSE rest]

\* GIT_REPO_REGEX.match(repo_url): the optional protocol group is tried first
\* (https://, then http://), then skipped
GitRepoRegexMatch(repo_url) ==
    LET try(p) == IF StartsWith(repo_url, p)
                  THEN AddressMatch(SubSeq(repo_url, Len(p) + 1, Len(repo_url)))
                  ELSE NoMatch
        skip == AddressMatch(repo_url)
    IN  IF try(HTTPS).matched
        THEN [matched |-> TRUE, protocol |-> HTTPS, address |-> try(HTTPS).address]
        ELSE IF try(HTTP).matched
        THEN [matched |-> TRUE, protocol |-> HTTP, address |-> try(HTTP).address]
        ELSE IF skip.matched
        THEN [matched |-> TRUE, protocol |-> NoStr, address |-> skip.address]
        ELSE NoMatch

\* re.match(r'^http://|^https://', repo_protocol)
ProtocolIsHttp(repo_protocol) ==
    StartsWith(repo_protocol, HTTP) \/ StartsWith(repo_protocol, HTTPS)

Returned(v) == [raised |-> FALSE, value |-> v]

\* repo_match is None: None.groupdict() raises AttributeError
AttributeError == [raised |-> TRUE, value |-> NoStr]

get_git_auth_url(repo_url, username, password) ==
    LET repo_match == GitRepoRegexMatch(repo_url)
    IN  IF ~repo_match.matched THEN AttributeError
        ELSE IF /\ StrTruthy(username) /\ StrTruthy(password)
                /\ StrTruthy(repo_match.protocol)
                /\ ProtocolIsHttp(repo_match.protocol)
        THEN Returned(repo_match.protocol \o username \o <<":">> \o password
                      \o <<"@">> \o repo_match.address)
        ELSE Returned(repo_url)

NoneTypeHasNoGroupdict ==
    <<"AttributeError:", "'NoneType'", "object", "has", "no", "attribute", "'groupdict'">>

GetGitAuthUrl ==
    /\ op = "get_git_auth_url"
    /\ pc = "call"
    /\ LET r == get_git_auth_url(input.repo_url, input.username, input.password)
       IN  /\ pc' = "done"
           /\ result' = IF r.raised THEN "error" ELSE "returned"
           /\ message' = IF r.raised THEN NoneTypeHasNoGroupdict ELSE <<>>
           /\ retval' = r.value
    /\ UNCHANGED <<op, input, trace, localRefs, remoteRefs, remoteInit, localInit,
                   localHead, remoteHead, repo, other, active>>

(* -------------------------------- clone_repo --------------------------- *)

\* what a command that works on the clone alone leaves behind
RepoOutcome(exit, stderr, r, h) == [exit |-> exit, stderr |-> stderr, repo |-> r, head |-> h]

\* one external command of the operations that do not touch the references
RepoStep(args, o, after) ==
    /\ trace' = Append(trace, [args |-> args, exit |-> o.exit, stderr |-> o.stderr])
    /\ repo' = o.repo
    /\ localHead' = o.head
    /\ pc' = after.pc
    /\ result' = after.result
    /\ message' = after.message
    /\ UNCHANGED <<op, input, localRefs, remoteRefs, remoteInit, localInit, remoteHead,
                   retval, other, active>>

\* git clone <url> <dir>
GitClone(args) ==
    { RepoOutcome(0, <<>>, [repo EXCEPT !.cloned = TRUE], localHead),
      RepoOutcome(128, <<"fatal:", "repository", "not", "found">>, repo, localHead) }

\* the copy of the credential injection in clone_repo
\* a URL computation that does not look at the password
clone_repo_url_with_auth_NoPasswordCheck(repo_url, username, password) ==
    LET repo_match == GitRepoRegexMatch(repo_url)
    IN  IF ~repo_match.matched THEN AttributeError
        ELSE IF /\ StrTruthy(username)
                /\ StrTruthy(repo_match.protocol)
                /\ ProtocolIsHttp(repo_match.protocol)
        THEN Returned(repo_match.protocol \o username \o <<":">> \o password
                      \o <<"@">> \o repo_match.address)
        ELSE Returned(repo_url)

clone_repo_url_with_auth(repo_url, username, password) ==
    LET repo_match == GitRepoRegexMatch(repo_url)
    IN  IF ~repo_match.matched THEN AttributeError
        ELSE IF /\ StrTruthy(username) /\ StrTruthy(password)
                /\ StrTruthy(repo_match.protocol)
                /\ ProtocolIsHttp(repo_match.protocol)
        THEN Returned(repo_match.protocol \o username \o <<":">> \o password
                      \o <<"@">> \o repo_match.address)
        ELSE Returned(repo_url)

CloneArgs(repo_url_with_auth) == <<"clone", Join(repo_url_with_auth), input.repo_dir>>

AfterClone(args, o) ==
    IF o.exit = 0 THEN Return
    ELSE Raise(<<"Error", "cloning", "repository", "(" \o Join(input.repo_url) \o "):">>
               \o ErrorRepr(args, o.stderr))

CloneRepo ==
    /\ op = "clone_repo"
    /\ pc = "clone"
    /\ LET u == clone_repo_url_with_auth(input.repo_url, input.username, input.password)
       IN  IF u.raised
           THEN /\ pc' = "done"
                /\ result' = "error"
                /\ message' = NoneTypeHasNoGroupdict
                /\ UNCHANGED <<op, input, trace, localRefs, remoteRefs, remoteInit,
                               localInit, localHead, remoteHead, repo, retval, other,
                               active>>
           ELSE \E o \in GitClone(CloneArgs(u.value)) :
                   RepoStep(CloneArgs(u.value), o, AfterClone(CloneArgs(u.value), o))

(* -------------------------------- git_config --------------------------- *)

\* git config <key> <value>
GitConfig(args) ==
    { RepoOutcome(0, <<>>, [repo EXCEPT !.config[args[2]] = args[3]], localHead),
      RepoOutcome(128, <<"fatal:", "not", "in", "a", "git", "directory">>,
                  repo, localHead) }

ConfigEmailArgs == <<"config", "user.email", input.git_email>>

ConfigNameArgs == <<"config", "user.name", input.git_name>>

ConfigError(args, o) ==
    <<"Unexpected", "error", "configuring", "git", "user.email",
      "(" \o input.git_email \o ")", "and", "user.name",
      "(" \o input.git_name \o "):">> \o ErrorRepr(args, o.stderr)

AfterConfigEmail(args, o) ==
    IF o.exit = 0 THEN Continue("config_name") ELSE Raise(ConfigError(args, o))

AfterConfigName(args, o) ==
    IF o.exit = 0 THEN Return ELSE Raise(ConfigError(args, o))

ConfigEmail ==
    /\ op = "git_config"
    /\ pc = "config_email"
    /\ \E o \in GitConfig(ConfigEmailArgs) :
          RepoStep(ConfigEmailArgs, o, AfterConfigEmail(ConfigEmailArgs, o))

ConfigName ==
    /\ op = "git_config"
    /\ pc = "config_name"
    /\ \E o \in GitConfig(ConfigNameArgs) :
          RepoStep(ConfigNameArgs, o, AfterConfigName(ConfigNameArgs, o))

(* ------------------------------- git_checkout -------------------------- *)

Branches == {"main", "feature"}

\* git checkout [-b] <branch>: without -b the branch must exist, with -b it
\* must not
GitCheckout(args) ==
    LET create == HasArg(args, "-b")
        branch == args[Len(args)]
    IN  IF create
        THEN IF branch \in repo.branches
             THEN { RepoOutcome(128, <<"fatal:", "a", "branch", "named", branch,
                                       "already", "exists">>, repo, localHead) }
             ELSE { RepoOutcome(0, <<>>,
                                [repo EXCEPT !.branches = @ \cup {branch},
                                             !.current = branch], localHead),
                    RepoOutcome(128, <<"fatal:", branch, "is", "not", "a", "valid",
                                       "branch", "name">>, repo, localHead) }
        ELSE IF branch \in repo.branches
             THEN { RepoOutcome(0, <<>>, [repo EXCEPT !.current = branch], localHead),
                    RepoOutcome(1, <<"error:", "Your", "local", "changes", "would", "be",
                                     "overwritten", "by", "checkout">>, repo, localHead) }
             ELSE { RepoOutcome(1, <<"error:", "pathspec", branch, "did", "not",
                                     "match", "any", "file(s)", "known", "to", "git">>,
                                repo, localHead) }

CheckoutArgs == <<"checkout", input.repo_branch>>

CheckoutNewArgs == <<"checkout", "-b", input.repo_branch>>

\* the inner handler: a failed checkout of the existing branch falls back to
\* checkout -b
\* a checkout without the fallback: the first failure is fatal
AfterCheckout_NoFallback(args, o) ==
    IF o.exit = 0 THEN Return
    ELSE Raise(<<"Unexpected", "error", "checking", "out", "branch",
                 "(" \o input.repo_branch \o ")">>)

AfterCheckout(args, o) ==
    IF o.exit = 0 THEN Return ELSE Continue("checkout_new")

AfterCheckoutNew(args, o) ==
    IF o.exit = 0 THEN Return
    ELSE Raise(<<"Unexpected", "error", "checking", "out", "new", "or", "existing",
                 "branch", "(" \o input.repo_branch \o "):">>
               \o ErrorRepr(args, o.stderr))

Checkout ==
    /\ op = "git_checkout"
    /\ pc = "checkout"
    /\ \E o \in GitCheckout(CheckoutArgs) :
          RepoStep(CheckoutArgs, o, AfterCheckout(CheckoutArgs, o))

CheckoutNew ==
    /\ op = "git_checkout"
    /\ pc = "checkout_new"
    /\ \E o \in GitCheckout(CheckoutNewArgs) :
          RepoStep(CheckoutNewArgs, o, AfterCheckoutNew(CheckoutNewArgs, o))

(* ------------------------------ git_commit_file ------------------------ *)

Files == {"values.yaml", "missing.yaml"}

\* git add <file>
GitAdd(args) ==
    { RepoOutcome(0, <<>>, [repo EXCEPT !.staged = @ \cup {args[2]}], localHead),
      RepoOutcome(128, <<"fatal:", "pathspec", args[2], "did", "not", "match", "any",
                         "files">>, repo, localHead) }

\* git commit --allow-empty --all --message <message>: HEAD moves to a new commit
GitCommit(args) ==
    { RepoOutcome(0, <<>>, [repo EXCEPT !.staged = {}], h) : h \in Hashes \ {localHead} }
    \cup
    { RepoOutcome(128, <<"fatal:", "unable", "to", "auto-detect", "email", "address">>,
                  repo, localHead) }

AddArgs == <<"add", input.file_path>>

CommitArgs == <<"commit", "--allow-empty", "--all", "--message", input.git_commit_message>>

\* an add step whose failure is swallowed
AfterAdd_Swallow(args, o) == Continue("commit")

AfterAdd(args, o) ==
    IF o.exit = 0 THEN Continue("commit")
    ELSE Raise(<<"Unexpected", "error", "adding", "file", "(" \o input.file_path \o ")",
                 "to", "commit:">> \o ErrorRepr(args, o.stderr))

AfterCommit(args, o) ==
    IF o.exit = 0 THEN Return
    ELSE Raise(<<"Unexpected", "error", "commiting", "file",
                 "(" \o input.file_path \o "):">> \o ErrorRepr(args, o.stderr))

Add ==
    /\ op = "git_commit_file"
    /\ pc = "add"
    /\ \E o \in GitAdd(AddArgs) : RepoStep(AddArgs, o, AfterAdd(AddArgs, o))

Commit ==
    /\ op = "git_commit_file"
    /\ pc = "commit"
    /\ \E o \in GitCommit(CommitArgs) : RepoStep(CommitArgs, o, AfterCommit(CommitArgs, o))

(* --------------------- git_orderd_tag_refs_with_created ---------------- *)

\* creation times of tags, in order; 0 stands for "no such tag"
Dates == {1, 2, 3}

\* %(creatordate) of a tag created at time d, as git prints it
DateChars(d) ==
    CASE d = 1 -> <<"T", "u", "e", " ", "N", "o", "v", " ", "3", " ", "1", "0", ":", "0", "0", ":", "0", "1", " ", "2", "0", "2", "6", " ", "+", "0", "0", "0", "0">>
      [] d = 2 -> <<"T", "u", "e", " ", "N", "o", "v", " ", "3", " ", "1", "0", ":", "0", "0", ":", "0", "2", " ", "2", "0", "2", "6", " ", "+", "0", "0", "0", "0">>
      [] d = 3 -> <<"T", "u", "e", " ", "N", "o", "v", " ", "3", " ", "1", "0", ":", "0", "0", ":", "0", "3", " ", "2", "0", "2", "6", " ", "+", "0", "0", "0", "0">>

\* %(refname) of a tag
RefChars(t) ==
    CASE t = "refs/tags/v1" -> <<"r", "e", "f", "s", "/", "t", "a", "g", "s", "/", "v", "1">>
      [] t = "refs/tags/v2" -> <<"r", "e", "f", "s", "/", "t", "a", "g", "s", "/", "v", "2">>

ForEachRefFormat == "--format=\"%(creatordate)|%(refname)\""

\* one line of for-each-ref under ForEachRefFormat: the quotes of the format
\* reach git and are printed
FormatLine(t, d) == <<"\"">> \o DateChars(d) \o <<"|">> \o RefChars(t) \o <<"\"">>

RECURSIVE Flatten(_)
\* the lines of an output, each ended by a line break
Flatten(lines) ==
    IF lines = <<>> THEN <<>> ELSE Head(lines) \o <<NL>> \o Flatten(Tail(lines))

\* the local tags in ascending order of creation (--sort=creatordate)
TagsByCreation(created) ==
    LET tags == { t \in TagRefs : created[t] # 0 }
        n    == Cardinality(tags)
    IN  CHOOSE q \in [1..n -> tags] :
            /\ \A i, j \in 1..n : i # j => q[i] # q[j]
            /\ \A i, j \in 1..n : i < j => created[q[i]] <= created[q[j]]

\* git fetch --tags <remote>: tags the clone lacks arrive from the remote
GitFetchTags(args) ==
    { [exit |-> 0, stderr |-> <<>>, head |-> localHead, stdout |-> <<>>,
       repo |-> [repo EXCEPT !.created =
                    [t \in TagRefs |-> IF repo.created[t] = 0
                                       THEN repo.remoteCreated[t] ELSE repo.created[t]]]],
      [exit |-> 128, stderr |-> <<"fatal:", "unable", "to", "access", args[Len(args)]>>,
       head |-> localHead, stdout |-> <<>>, repo |-> repo] }

\* git for-each-ref --sort=creatordate --format=... refs/tags/
GitForEachRef(args) ==
    LET q == TagsByCreation(repo.created)
    IN  { [exit |-> 0, stderr |-> <<>>, head |-> localHead, repo |-> repo,
           stdout |-> Flatten([i \in 1..Len(q) |-> FormatLine(q[i], repo.created[q[i]])])],
          [exit |-> 128, stderr |-> <<"fatal:", "not", "a", "git", "repository">>,
           head |-> localHead, stdout |-> <<>>, repo |-> repo] }

RECURSIVE SplitLines(_)
\* str.splitlines
SplitLines(buf) ==
    IF buf = <<>> THEN <<>>
    ELSE LET breaks == { i \in 1..Len(buf) : buf[i] = NL }
         IN  IF breaks = {} THEN <<buf>>
             ELSE LET k == CHOOSE i \in breaks : \A j \in breaks : i <= j
                  IN  <<SubSeq(buf, 1, k - 1)>> \o SplitLines(SubSeq(buf, k + 1, Len(buf)))

\* re.split('|', line): the pattern is an alternation of two empty patterns, it
\* matches the empty string at every position, so the line falls into its
\* characters between two empty strings
ReSplit(line) == <<"">> \o [i \in 1..Len(line) |-> line[i]] \o <<"">>

\* datetime.strptime(text, '%a %b %d %H:%M:%S %Y %z')
Strptime(text) ==
    IF \E d \in Dates : Join(DateChars(d)) = text
    THEN [raised |-> FALSE, value |-> CHOOSE d \in Dates : Join(DateChars(d)) = text]
    ELSE [raised |-> TRUE, value |-> text]

\* tag_dict[key] = value on an OrderedDict kept as a sequence of pairs
DictSet(dict, key, value) ==
    IF \E i \in DOMAIN dict : dict[i][1] = key
    THEN [i \in DOMAIN dict |-> IF dict[i][1] = key THEN <<key, value>> ELSE dict[i]]
    ELSE Append(dict, <<key, value>>)

RECURSIVE ParseTagLines(_, _)
\* the loop over the captured lines
ParseTagLines(lines, tag_dict) ==
    IF lines = <<>> THEN [raised |-> FALSE, value |-> tag_dict]
    ELSE LET split_line == ReSplit(Head(lines))
             created    == Strptime(split_line[2])
         IN  IF created.raised THEN created
             ELSE ParseTagLines(Tail(lines),
                                DictSet(tag_dict, split_line[1], created.value))

FetchTagsArgs == <<"fetch", "--tags", Remote>>

ForEachRefArgs == <<"for-each-ref", "--sort=creatordate", ForEachRefFormat, "refs/tags/">>

AccessError(inner) == <<"Error", "accessing", "repo:">> \o inner

AfterFetchTags(args, o) ==
    IF o.exit = 0 THEN Continue("for_each_ref")
    ELSE Raise(AccessError(ErrorRepr(args, o.stderr)))

\* the function has no return statement: it ends by returning None
AfterForEachRef(args, o) ==
    IF o.exit # 0 THEN Raise(AccessError(ErrorRepr(args, o.stderr)))
    ELSE LET parsed == ParseTagLines(SplitLines(o.stdout), <<>>)
         IN  IF parsed.raised
             THEN Raise(AccessError(<<"time", "data", parsed.value, "does", "not",
                                      "match", "format">>))
             ELSE Return

FetchTags ==
    /\ op = "git_orderd_tag_refs_with_created"
    /\ pc = "fetch_tags"
    /\ \E o \in GitFetchTags(FetchTagsArgs) :
          RepoStep(FetchTagsArgs, o, AfterFetchTags(FetchTagsArgs, o))

ForEachRef ==
    /\ op = "git_orderd_tag_refs_with_created"
    /\ pc = "for_each_ref"
    /\ \E o \in GitForEachRef(ForEachRefArgs) :
          RepoStep(ForEachRefArgs, o, AfterForEachRef(ForEachRefArgs, o))

(* ------------------------------ the system ----------------------------- *)

NoRefs == [ r \in RefNames |-> Absent ]

\* the inputs of one call; parameters the operation does not take stay at defaults
UpdateRefInputs ==
    [ git_ref_root : RefRoots, git_ref : RefLeaves, git_ref_value : Hashes,
      url : Urls, force_push_ref : BOOLEAN, tag : {None}, force_push_tags : {FALSE} ]

TagInputs ==
    [ git_ref_root : {None}, git_ref : {None}, git_ref_value : {None},
      url : Urls, force_push_ref : {FALSE}, tag : TagNames, force_push_tags : BOOLEAN ]

\* the clone as the operations that only read or write it find it
DefaultRepo ==
    [ cloned |-> TRUE,
      config |-> [k \in {"user.email", "user.name"} |-> Absent],
      branches |-> {"main"}, current |-> "main", staged |-> {},
      created |-> [t \in TagRefs |-> 0], remoteCreated |-> [t \in TagRefs |-> 0] ]

\* no second call is in progress
NoCaller == [id |-> 0]

UrlPrefixes ==
    { <<>>, HTTPS, HTTP, <<"H", "T", "T", "P", "S", ":", "/", "/">>, <<"g", "i", "t", "@">>,
      <<"s", "s", "h", ":", "/", "/">>, <<"x">> }

UrlRests ==
    { <<>>, <<"h", "/", "r">>, <<"h", NL>>, <<"h", NL, "r">>, <<"h", "t", "t", "p", ":", "/", "/", "h">> }

RepoUrls == { p \o r : p \in UrlPrefixes, r \in UrlRests }

Usernames == { NoStr, <<>>, <<"u">> }

Passwords == { NoStr, <<>>, <<"p">>, <<"p", "@">> }

AuthUrlInputs == [ repo_url : RepoUrls, username : Usernames, password : Passwords ]

CloneInputs ==
    [ repo_dir : {"/tmp/r"}, repo_url : RepoUrls, username : Usernames,
      password : Passwords ]

ConfigInputs ==
    [ repo_dir : {"/tmp/r"}, git_email : {"ci@example.com", ""}, git_name : {"ci", ""} ]

CheckoutInputs == [ repo_dir : {"/tmp/r"}, repo_branch : Branches ]

CommitInputs ==
    [ repo_dir : {"/tmp/r"}, file_path : Files, git_commit_message : {"update", ""} ]

OrderedTagsInputs == [ repo_dir : {"/tmp/r"}, url : Urls ]

InitRefOp ==
    /\ op = "git_update_ref_and_push"
    /\ input \in UpdateRefInputs
    /\ pc = "check_ref_format"
    /\ \E l, r \in Hashes \cup {Absent} :
          /\ localRefs = [NoRefs EXCEPT ![input.git_ref_root \o input.git_ref] = l]
          /\ remoteRefs = [NoRefs EXCEPT ![input.git_ref_root \o input.git_ref] = r]
    /\ remoteHead = localHead
    /\ repo = DefaultRepo

InitTagOp ==
    /\ op = "git_tag_and_push"
    /\ input \in TagInputs
    /\ pc = "push_commits"
    /\ localRefs \in { f \in [RefNames -> Hashes \cup {Absent}] :
                          \A r \in RefNames \ TagRefs : f[r] = Absent }
    /\ remoteRefs \in { f \in [RefNames -> Hashes \cup {Absent}] :
                          \A r \in RefNames \ TagRefs : f[r] = Absent }
    /\ remoteHead \in Hashes
    /\ repo = DefaultRepo

\* the operations that leave the references alone
InitRepoOp ==
    /\ localRefs = NoRefs
    /\ remoteRefs = NoRefs
    /\ remoteHead = localHead
    /\ \/ /\ op = "get_git_auth_url"
          /\ input \in AuthUrlInputs
          /\ pc = "call"
          /\ repo = DefaultRepo
       \/ /\ op = "clone_repo"
          /\ input \in CloneInputs
          /\ pc = "clone"
          /\ repo = [DefaultRepo EXCEPT !.cloned = FALSE]
       \/ /\ op = "git_config"
          /\ input \in ConfigInputs
          /\ pc = "config_email"
          /\ repo = DefaultRepo
       \/ /\ op = "git_checkout"
          /\ input \in CheckoutInputs
          /\ pc = "checkout"
          /\ \E bs \in SUBSET Branches : \E c \in bs :
                repo = [DefaultRepo EXCEPT !.branches = bs, !.current = c]
       \/ /\ op = "git_commit_file"
          /\ input \in CommitInputs
          /\ pc = "add"
          /\ \E st \in SUBSET Files : repo = [DefaultRepo EXCEPT !.staged = st]
       \/ /\ op = "git_orderd_tag_refs_with_created"
          /\ input \in OrderedTagsInputs
          /\ pc = "fetch_tags"
          /\ \E lc, rc \in [TagRefs -> Dates \cup {0}] :
                repo = [DefaultRepo EXCEPT !.created = lc, !.remoteCreated = rc]

InitCall ==
    /\ remoteInit = remoteRefs
    /\ localInit = localRefs
    /\ result = "running"
    /\ message = <<>>
    /\ trace = <<>>
    /\ retval = None

Init ==
    /\ localHead \in Hashes
    /\ InitRefOp \/ InitTagOp \/ InitRepoOp
    /\ InitCall
    /\ other = NoCaller
    /\ active = 1

Next ==
    \/ CheckRefFormat
    \/ Fetch
    \/ UpdateRef
    \/ PushRef
    \/ PushCommits
    \/ Tag
    \/ PushTags
    \/ GetGitAuthUrl
    \/ CloneRepo
    \/ ConfigEmail
    \/ ConfigName
    \/ Checkout
    \/ CheckoutNew
    \/ Add
    \/ Commit
    \/ FetchTags
    \/ ForEachRef

Spec == Init /\ [][Next]_vars

(* ------------- two calls of git_update_ref_and_push, interleaved -------- *)

\* what belongs to one call and its clone
Context(i) ==
    [ id |-> i, input |-> input, pc |-> pc, result |-> result, message |-> message,
      trace |-> trace, localRefs |-> localRefs, localInit |-> localInit ]

\* between two external commands the other call may run: the calls are
\* separate processes, each blocking only on its own command
Switch ==
    /\ other.id # 0
    /\ input' = other.input
    /\ pc' = other.pc
    /\ result' = other.result
    /\ message' = other.message
    /\ trace' = other.trace
    /\ localRefs' = other.localRefs
    /\ localInit' = other.localInit
    /\ active' = other.id
    /\ other' = Context(active)
    /\ UNCHANGED <<op, remoteRefs, remoteInit, localHead, remoteHead, repo, retval>>

\* two calls without force for the same reference, with different values, each
\* in a clone of its own, against one remote
InitRace ==
    /\ localHead \in Hashes
    /\ op = "git_update_ref_and_push"
    /\ input \in { i \in UpdateRefInputs : ~i.force_push_ref /\ i.url = None }
    /\ pc = "check_ref_format"
    /\ \E l, r \in Hashes \cup {Absent} :
          /\ localRefs = [NoRefs EXCEPT ![input.git_ref_root \o input.git_ref] = l]
          /\ remoteRefs = [NoRefs EXCEPT ![input.git_ref_root \o input.git_ref] = r]
    /\ remoteHead = localHead
    /\ repo = DefaultRepo
    /\ InitCall
    /\ active = 1
    /\ \E v \in Hashes \ {input.git_ref_value} : \E l \in Hashes \cup {Absent} :
          other = [ id |-> 2, input |-> [input EXCEPT !.git_ref_value = v],
                    pc |-> "check_ref_format", result |-> "running", message |-> <<>>,
                    trace |-> <<>>,
                    localRefs |-> [NoRefs EXCEPT ![input.git_ref_root \o input.git_ref] = l],
                    localInit |-> [NoRefs EXCEPT ![input.git_ref_root \o input.git_ref] = l] ]

NextRace ==
    \/ CheckRefFormat
    \/ Fetch
    \/ UpdateRef
    \/ PushRef
    \/ Switch

SpecRace == InitRace /\ [][NextRace]_vars

TypeOK ==
    /\ op \in {"git_update_ref_and_push", "git_tag_and_push", "get_git_auth_url",
               "clone_repo", "git_config", "git_checkout", "git_commit_file",
               "git_orderd_tag_refs_with_created"}
    /\ pc \in {"check_ref_format", "fetch", "update_ref", "push_ref",
               "push_commits", "tag", "push_tags", "call", "clone", "config_email",
               "config_name", "checkout", "checkout_new", "add", "commit",
               "fetch_tags", "for_each_ref", "done"}
    /\ result \in {"running", "returned", "raised", "error"}
    /\ (pc = "done") = (result # "running")
    /\ localRefs \in [RefNames -> Hashes \cup {Absent}]
    /\ remoteRefs \in [RefNames -> Hashes \cup {Absent}]
    /\ Len(trace) <= 4

(* ------------------------------ properties ----------------------------- *)

IsRefOp == op = "git_update_ref_and_push"

IsTagOp == op = "git_tag_and_push"

\* positions of the trace at which `git <c> ...` was issued
Issued(c) == { i \in DOMAIN trace : trace[i].args[1] = c }

\* the full reference computed from the inputs alone
FullRef == input.git_ref_root \o input.git_ref

FullRefSpec == FullRef \o ":" \o FullRef

Target == IF input.url = None THEN "origin" ELSE input.url

NotFoundText(t) == Find(ErrorRepr(t.args, t.stderr), CouldntFindRemoteRef) # -1

CheckPassed == Len(trace) >= 1 /\ trace[1].args[1] = "check-ref-format" /\ trace[1].exit = 0

\* C1: without force, once the probe has found the reference on the remote
\* (the fetch succeeded), the call has raised an "already exists in remote"
\* error and neither update-ref nor push is ever issued.
C1_AbortsWhenRefExistsRemotely ==
    ( /\ IsRefOp /\ ~input.force_push_ref
      /\ remoteInit[FullRef] # Absent
      /\ \E i \in Issued("fetch") : trace[i].exit = 0 )
    => /\ result = "raised"
       /\ Find(message, <<"already", "exists", "in", "remote.">>) # -1
       /\ Issued("update-ref") = {}
       /\ Issued("push") = {}

\* C2: without force, when the probe fails with "Couldn't find remote ref"
\* the call goes on: it does not raise on the probe, and when it has ended
\* there was exactly one fetch and exactly one update-ref, the latter later.
C2_ProceedsWhenRefNotFound ==
    ( /\ IsRefOp /\ ~input.force_push_ref
      /\ remoteInit[FullRef] = Absent
      /\ \E i \in Issued("fetch") : trace[i].exit # 0 /\ NotFoundText(trace[i]) )
    => /\ ~(result = "raised" /\ trace[Len(trace)].args[1] = "fetch")
       /\ Cardinality(Issued("fetch")) = 1
       /\ pc = "done" =>
             /\ Cardinality(Issued("update-ref")) = 1
             /\ \A i \in Issued("fetch"), j \in Issued("update-ref") : i < j

\* C3: without force, a probe that fails with any other error text aborts the
\* call: it has raised and neither update-ref nor push is ever issued.
C3_AbortsOnOtherProbeFailure ==
    ( /\ IsRefOp /\ ~input.force_push_ref
      /\ \E i \in Issued("fetch") : trace[i].exit # 0 /\ ~NotFoundText(trace[i]) )
    => /\ result = "raised"
       /\ Issued("update-ref") = {}
       /\ Issued("push") = {}

\* C4: with force, no fetch is ever issued; after a successful
\* check-ref-format the next command is the update-ref, and after it the
\* push, whatever the remote holds (no state of the remote blocks either).
C4_ForceSkipsProbe ==
    (IsRefOp /\ input.force_push_ref) =>
       /\ Issued("fetch") = {}
       /\ CheckPassed =>
             /\ Len(trace) = 1 => (pc = "update_ref" /\ ENABLED UpdateRef)
             /\ Len(trace) >= 2 =>
                   trace[2].args = <<"update-ref", FullRef, input.git_ref_value>>
             /\ (Len(trace) = 2 /\ trace[2].exit = 0) =>
                   (pc = "push_ref" /\ ENABLED PushRef)
             /\ Len(trace) >= 3 =>
                   (trace[2].exit = 0 /\ trace[3].args = <<"push", Target, FullRefSpec>>)
             /\ Len(trace) <= 3

C4_Witness ==
    /\ IsRefOp /\ input.force_push_ref
    /\ remoteInit[FullRef] \notin {Absent, input.git_ref_value}
    /\ result = "returned"
    /\ Len(trace) = 3
    /\ remoteRefs[FullRef] = input.git_ref_value

\* the scenario of C5: the call and the remote it runs against
C5_Scenario ==
    /\ IsRefOp
    /\ input.git_ref_root = "refs/" /\ input.git_ref = "myref"
    /\ input.git_ref_value = "abc123" /\ ~input.force_push_ref
    /\ input.url = None
    /\ remoteInit["refs/myref"] = Absent

\* git behaves as the scenario says: the probe reports the missing
\* reference, every other command succeeds
C5_GitAsInScenario ==
    \A i \in DOMAIN trace :
        IF trace[i].args[1] = "fetch"
        THEN trace[i].exit # 0 /\ NotFoundText(trace[i])
        ELSE trace[i].exit = 0

\* C5: in the scenario the finished call has returned and has issued exactly
\* check-ref-format, fetch (empty refmap), update-ref to abc123 and push of
\* refs/myref:refs/myref, in that order.
C5_ExactTrace ==
    (C5_Scenario /\ C5_GitAsInScenario /\ pc = "done") =>
       /\ result = "returned"
       /\ Len(trace) = 4
       /\ trace[1].args = <<"check-ref-format", "refs/myref">>
       /\ trace[2].args = <<"fetch", "--refmap=''", "origin", "refs/myref:refs/myref">>
       /\ SubSeq(trace[3].args, 1, 3) = <<"update-ref", "refs/myref", "abc123">>
       /\ trace[4].args = <<"push", "origin", "refs/myref:refs/myref">>

\* C6: fetch, update-ref and push are only ever issued after a
\* check-ref-format of the full reference that exited 0; when that check
\* fails the call has raised and no other command was issued.
C6_FormatCheckedFirst ==
    IsRefOp =>
       /\ Len(trace) >= 1 => trace[1].args = <<"check-ref-format", FullRef>>
       /\ \A c \in {"fetch", "update-ref", "push"} : \A i \in Issued(c) :
             i > 1 /\ trace[1].exit = 0
       /\ (Len(trace) >= 1 /\ trace[1].exit # 0) =>
             (Len(trace) = 1 /\ result = "raised")

C6_Witness ==
    /\ IsRefOp
    /\ Len(trace) = 1 /\ trace[1].exit = 1
    /\ result = "raised"
    /\ Find(message, <<"has", "improper", "format.">>) # -1

\* the local value of the full reference when update-ref is issued: what a
\* successful probe fetched, else what the clone held at the start
LocalBeforeUpdate ==
    IF \E i \in Issued("fetch") : trace[i].exit = 0
    THEN remoteInit[FullRef] ELSE localInit[FullRef]

\* C7 as stated: on both paths update-ref carries no old value and never
\* fails because the reference already exists locally.
C7_LocalWriteUnconditional ==
    IsRefOp => \A i \in Issued("update-ref") :
       /\ trace[i].args = <<"update-ref", FullRef, input.git_ref_value>>
       /\ trace[i].exit # 0 =>
             Find(trace[i].stderr, <<"reference", "already", "exists">>) = -1

\* C7 (amended): with force, update-ref carries no old value and, when it
\* succeeds, the local reference is git_ref_value whatever it was; without
\* force, update-ref carries an empty old value and fails, leaving the local
\* reference as it was, whenever the reference already exists locally.
C7_LocalWriteByPath ==
    IsRefOp => \A i \in Issued("update-ref") :
       IF input.force_push_ref
       THEN /\ trace[i].args = <<"update-ref", FullRef, input.git_ref_value>>
            /\ trace[i].exit = 0 => localRefs[FullRef] = input.git_ref_value
            /\ trace[i].exit # 0 =>
                  Find(trace[i].stderr, <<"reference", "already", "exists">>) = -1
       ELSE /\ trace[i].args = <<"update-ref", FullRef, input.git_ref_value, "">>
            /\ LocalBeforeUpdate # Absent =>
                  (trace[i].exit # 0 /\ localRefs[FullRef] = LocalBeforeUpdate)
            /\ trace[i].exit = 0 => localRefs[FullRef] = input.git_ref_value

C7_Witness ==
    /\ IsRefOp /\ ~input.force_push_ref
    /\ localInit[FullRef] \notin {Absent, input.git_ref_value}
    /\ \E i \in Issued("update-ref") : trace[i].exit # 0
    /\ localRefs[FullRef] = localInit[FullRef]
    /\ result = "raised"

\* C8: at most one push is issued, exactly one once the call got past a
\* successful update-ref; its arguments are the target (url, else origin) and
\* the refspec full:full, nothing else: no force flag, no "+" refspec.
C8_PushOnceUnforced ==
    IsRefOp =>
       /\ Cardinality(Issued("push")) <= 1
       /\ \A i \in Issued("push") : trace[i].args = <<"push", Target, FullRefSpec>>
       /\ (pc = "done" /\ \E j \in Issued("update-ref") : trace[j].exit = 0) =>
             Cardinality(Issued("push")) = 1

C8_Witness ==
    /\ IsRefOp /\ input.force_push_ref /\ input.url # None
    /\ result = "returned"
    /\ \E i \in Issued("push") : trace[i].args[2] = input.url

\* C9: when the push of commits fails, the call has raised and nothing else,
\* neither the tag command nor the tag push, was issued.
C9_NoTagAfterFailedPush ==
    (IsTagOp /\ Len(trace) >= 1) =>
       /\ trace[1].args = (IF input.url = None THEN <<"push">> ELSE <<"push", input.url>>)
       /\ trace[1].exit # 0 =>
             /\ result = "raised"
             /\ Len(trace) = 1
             /\ Issued("tag") = {}

C9_Witness ==
    /\ IsTagOp /\ Len(trace) = 1 /\ trace[1].exit = 1 /\ result = "raised"
    /\ Find(message, <<"Error", "pushing", "commits">>) # -1

\* positions of the tag push in the trace
TagPushes == { i \in Issued("push") : HasArg(trace[i].args, "--tag") }

C11_TagStepsForwardOnly ==
    IsTagOp =>
       /\ Len(trace) <= 3
       /\ Len(trace) >= 1 =>
             trace[1].args = (IF input.url = None THEN <<"push">> ELSE <<"push", input.url>>)
       /\ Len(trace) >= 2 => (trace[1].exit = 0 /\ trace[2].args[1] = "tag")
       /\ Len(trace) >= 3 =>
             (trace[2].exit = 0 /\ trace[3].args[1] = "push" /\ 3 \in TagPushes)
       /\ \A i \in DOMAIN trace :
             trace[i].exit # 0 => (i = Len(trace) /\ result = "raised")
       /\ Len(trace) >= 2 => remoteHead = localHead
       /\ Len(trace) >= 3 => localRefs[TagRef(input.tag)] = localHead

C11_Witness ==
    /\ IsTagOp /\ Len(trace) = 3 /\ trace[3].exit # 0 /\ result = "raised"
    /\ remoteHead = localHead
    /\ localRefs[TagRef(input.tag)] = localHead
    /\ localInit[TagRef(input.tag)] # localHead

\* the commands the code issues to find something out, whose failure its
\* handler interprets
IsProbe(i) ==
    \/ op = "git_checkout" /\ i = 1
    \/ op = "git_update_ref_and_push" /\ trace[i].args[1] = "fetch"

\* C12 as stated: in every operation a command that exits non-zero is the
\* last command issued and the operation has raised StepRunnerException.
C12_EveryFailureFatal ==
    \A i \in DOMAIN trace :
        trace[i].exit # 0 => (i = Len(trace) /\ result = "raised")

\* C12 (amended): the same for every command but the two probes (the first
\* checkout of git_checkout, the fetch of git_update_ref_and_push); no
\* command is ever issued twice; a failed first checkout is followed only
\* by checkout -b.
C12_FailureFatalExceptProbes ==
    /\ \A i \in DOMAIN trace :
          (trace[i].exit # 0 /\ ~IsProbe(i)) => (i = Len(trace) /\ result = "raised")
    /\ \A i, j \in DOMAIN trace : i < j => trace[i].args # trace[j].args
    /\ (op = "git_checkout" /\ Len(trace) >= 2) =>
          (trace[1].exit # 0 /\ trace[2].args = <<"checkout", "-b", input.repo_branch>>)

C12_Witness ==
    /\ op = "git_commit_file"
    /\ Len(trace) = 2 /\ trace[1].exit = 0 /\ trace[2].exit # 0
    /\ result = "raised"
    /\ Find(message, <<"error", "commiting", "file">>) # -1

\* what the URL builder is to return: credentials go between the http(s)://
\* prefix and the rest when both are non-empty, else the URL as given
C13_Expected ==
    LET url == input.repo_url
        creds == /\ input.username \notin {NoStr, <<>>}
                 /\ input.password \notin {NoStr, <<>>}
        inject(p) == p \o input.username \o <<":">> \o input.password \o <<"@">>
                     \o SubSeq(url, Len(p) + 1, Len(url))
    IN  IF creds /\ StartsWith(url, HTTPS) THEN inject(HTTPS)
        ELSE IF creds /\ StartsWith(url, HTTP) THEN inject(HTTP)
        ELSE url

\* C13: get_git_auth_url always returns, and returns the URL with the
\* credentials injected for http(s) URLs with both credentials, the URL
\* unchanged otherwise.
C13_AuthUrl ==
    (op = "get_git_auth_url" /\ pc = "done") =>
       (result = "returned" /\ retval = C13_Expected)

\* the tags the enumeration has to report, after a successful fetch
C14_Tags == { t \in TagRefs : repo.created[t] # 0 }

\* C14: after a successful fetch and for-each-ref over at least one tag, all
\* created at distinct times, the call has returned the tag references with
\* their creation times in ascending order, and has issued nothing but the
\* fetch and the for-each-ref.
C14_OrderedTags ==
    ( /\ op = "git_orderd_tag_refs_with_created" /\ pc = "done"
      /\ Len(trace) = 2 /\ trace[1].exit = 0 /\ trace[2].exit = 0
      /\ C14_Tags # {}
      /\ \A t, u \in C14_Tags : t # u => repo.created[t] # repo.created[u] )
    => /\ result = "returned"
       /\ retval = [ i \in 1..Cardinality(C14_Tags) |->
                       <<TagsByCreation(repo.created)[i],
                         repo.created[TagsByCreation(repo.created)[i]]>> ]
       /\ trace[1].args[1] = "fetch" /\ trace[2].args[1] = "for-each-ref"

\* C15: of two interleaved calls without force for the same reference with
\* different values, at most one returns: never both.
C15_AtMostOneSucceeds ==
    other.id # 0 => ~(result = "returned" /\ other.result = "returned")

\* C16: git_checkout first checks out the existing branch; checkout -b is
\* issued only after that failed, and then always; the call has raised
\* exactly when both failed and has returned exactly when one succeeded.
C16_CheckoutFallback ==
    op = "git_checkout" =>
       /\ Len(trace) <= 2
       /\ Len(trace) >= 1 => trace[1].args = <<"checkout", input.repo_branch>>
       /\ Len(trace) >= 2 =>
             (trace[1].exit # 0 /\ trace[2].args = <<"checkout", "-b", input.repo_branch>>)
       /\ (Len(trace) = 1 /\ trace[1].exit # 0) =>
             (pc = "checkout_new" /\ ENABLED CheckoutNew)
       /\ pc = "done" =>
             /\ (result = "raised") = (\A i \in DOMAIN trace : trace[i].exit # 0)
             /\ (result = "returned") = (\E i \in DOMAIN trace : trace[i].exit = 0)
             /\ Len(trace) >= 1

C16_Witness ==
    /\ op = "git_checkout" /\ Len(trace) = 2
    /\ trace[1].exit # 0 /\ trace[2].exit # 0
    /\ result = "raised"

====
